---- MODULE Spec2Model ----
(***************************************************************************)
(* Model of relm's message core: the EventStream (src/core/stream.rs),    *)
(* the cross-thread Channel (src/core/channel.rs) and the glib source      *)
(* adapter they are built on (src/core/source.rs).                         *)
(*                                                                         *)
(* The loop thread is modelled with an explicit call stack, because the    *)
(* observers and the primary callback are user code which may call back    *)
(* into the stream while emit or dispatch is still running.                *)
(***************************************************************************)
EXTENDS Integers, Sequences, FiniteSets, TLC

\* ---------------------------------------------------------------- bounds
MaxEmit == 2      \* emit calls made over one run
MaxObs == 2       \* observers registered over one run
MaxCb == 1        \* distinct closures handed to set_callback
MaxGuards == 2    \* Lock guards alive at the same time
MaxDepth == 2     \* emit calls in progress at the same time (nesting)
MaxSend == 2      \* messages each thread sends through its Sender clone
MaxSet == 2       \* closures handed to set_callback by a program using no lock and no handle
Threads == {"t1", "t2"}   \* the threads holding a clone of the Sender

VARIABLES
    \* EventStreamData (stream.rs:13-20)
    events,      \* VecDeque<MSG>
    locked,      \* bool
    observers,   \* Vec<Rc<dyn Fn(&MSG)>>, an observer is named by its registration number
    \* SourceData (stream.rs:36-39)
    callback,    \* Option<Box<dyn FnMut(MSG)>>: 0 is None, c > 0 the c-th closure registered
    \* the glib source carrying the payload (source.rs:42-67)
    owned,       \* the EventStream value has not been dropped
    attached,    \* the source is attached to the main context (not destroyed)
    refs,        \* reference count of the GSource
    payload,     \* "live" or "dropped": the SourceData written by new_source
    payloadDrops,\* how many times the payload has been destructed
    \* the loop thread
    stack,       \* call stack of emit / observer / primary callback frames
    loopPc,      \* "idle" or "pending" (prepare reported ready, dispatch is due)
    guards,      \* number of live Lock values
    nextMsg,     \* the next message to be emitted (messages are numbered)
    lastSet,     \* the closure last stored by set_callback (closures are numbered), 0: none
    log,         \* history: what was emitted, observed, queued and delivered
    fatal,       \* "none", or the panic that ended the process
    \* ChannelData (channel.rs:8-12) and the mpsc transport
    transport,   \* the messages in the mpsc channel, oldest first
    peeked_value,\* Option<MSG>: <<>> is None, <<m>> is Some(m)
    received,    \* history: the messages passed to the Channel's callback
    \* the Channel's source and the loop polling it
    chOwned,     \* the Channel value has not been dropped
    chRefs,      \* reference count of the Channel's GSource
    chPayload,   \* "live" or "dropped": the RefCell<ChannelData>, which owns the Receiver
    chPc,        \* "prepare", "poll_ready", "poll_wait" or "dispatch"
    woken,       \* MainContext::wakeup() was called and not yet acknowledged by a poll
    chFatal,     \* "none", or the panic raised inside the Channel's source
    \* the sending threads
    thr          \* per thread: pc, number of sends begun, result of the last send

streamVars == <<events, locked, observers, callback>>
sourceVars == <<owned, attached, refs, payload, payloadDrops>>
threadVars == <<stack, loopPc, guards, nextMsg, lastSet, log, fatal>>
chanVars == <<transport, peeked_value, received, chOwned, chRefs, chPayload, chPc, woken, chFatal, thr>>
vars == <<streamVars, sourceVars, threadVars, chanVars>>

\* ------------------------------------------------------------- helpers
Top == stack[Len(stack)]
Pop(s) == SubSeq(s, 1, Len(s) - 1)
Ctx == IF stack = <<>> THEN "top" ELSE Top.k
Frame(k, m, len, via, hold) == [k |-> k, m |-> m, len |-> len, i |-> 1, via |-> via, hold |-> hold]
Entry(k, m, a, ctx) == [k |-> k, m |-> m, a |-> a, ctx |-> ctx]
EmitDepth == Cardinality({j \in 1..Len(stack) : stack[j].k = "emit"})

\* user code runs: at top level, inside an observer, or inside the primary callback
InUser == fatal = "none" /\ (IF stack = <<>> THEN TRUE ELSE Top.k \in {"obs", "cb"})

\* dispatch keeps self.callback.borrow_mut() for the whole `if let`
CallbackBorrowed == \E j \in 1..Len(stack) : stack[j].k = "cb"
\* the stream's RefCell is borrowed by a frame that kept its borrow
StreamBorrowed == \E j \in 1..Len(stack) : stack[j].hold

\* dispatch: the borrow_mut() of line 24 is a temporary of the `let`, released
\* before the callback is called
\* (variant: `if let Some(event) = self.stream.borrow_mut().events.pop_front()`
\* would keep it until the end of the `if let`)
DispatchHoldsStream_AcrossCallback == TRUE
DispatchHoldsStream == FALSE
\* emit: the borrow() of line 45 is released before the observer is called
EmitHoldsStream == FALSE

\* Weak::upgrade: the payload holds the strong Rc; a StreamHandle::emit in
\* progress holds the upgraded one
StreamAlive == payload = "live" \/ \E j \in 1..Len(stack) : stack[j].k = "emit" /\ stack[j].via = "handle"
Resolves(via) == via = "owner" \/ StreamAlive
CanUse(via) == via = "handle" \/ owned

\* emit, line 42: a message is taken only while the stream is not locked
\* (variant: the test on `locked` left out)
EmitAccepts_IgnoresLock(lk) == TRUE
EmitAccepts(lk) == ~lk

\* emit, lines 43-44: the number of observers is read once, before the loop
\* (variants: `0..len - 1`; `observers.len()` read again at every turn)
LoopBound_OneShort(snapshot, current) == snapshot - 1
LoopBound_Reread(snapshot, current) == current
LoopBound(snapshot, current) == snapshot

\* emit, line 45: the i-th observer of the list (i counted from 1)
\* (variant: the list walked from its end)
ObserverAt_Reversed(obs, i) == obs[Len(obs) + 1 - i]
ObserverAt(obs, i) == obs[i]

\* emit, line 49: push_back (variant: push_front)
QueuePush_Front(q, m) == <<m>> \o q
QueuePush(q, m) == Append(q, m)

\* dispatch, line 24: pop_front (variant: the queue is drained)
QueueFront(q) == Head(q)
QueuePop_All(q) == <<>>
QueuePop(q) == Tail(q)

\* SourceData::prepare (stream.rs:31-33): ready while messages are queued, no
\* timeout (variant: `is_empty()` without the negation)
PrepareResult_Negated(ev) == [ready |-> ev = <<>>, timeout |-> "none"]
PrepareResult(ev) == [ready |-> ev # <<>>, timeout |-> "none"]

\* SourceFuncs::check (source.rs:34-36): the default, which neither source
\* overrides (variant: a check that reports ready)
Check_Ready == TRUE
Check == FALSE

\* dispatch, line 28: the source stays armed (variant: false, on which glib
\* destroys the source)
DispatchReturn_False == FALSE
DispatchReturn == TRUE

\* set_callback, line 142: the slot is assigned (variant: a slot that is
\* filled only once)
SetSlot_KeepFirst(old, c) == IF old = 0 THEN c ELSE old
SetSlot(old, c) == c

\* lock, lines 124 and 182 / unlock, line 193: the flag is assigned, not counted
\* (variant: unlock clears the flag only when the last guard goes)
LockedAfterLock(g) == TRUE
LockedAfterUnlock_Counted(g) == g > 1
LockedAfterUnlock(g) == FALSE

\* StreamHandle, lines 175, 187, 195, 205: the panic of a handle whose stream is gone
\* (variant: unlock without its else branch)
HandlePanic_SilentUnlock(op) == IF op = "unlock" THEN "none" ELSE "dropped_" \o op
HandlePanic(op) == "dropped_" \o op

\* finalize (source.rs:90-95) destructs the payload
\* (variant: the ptr::read of `data` left out)
FinalizePayload_Leak(p) == p
FinalizePayload(p) == "dropped"

\* n references to the GSource are given up; glib calls finalize at zero
Release(n) ==
    /\ refs' = refs - n
    /\ payload' = IF refs - n = 0 THEN FinalizePayload(payload) ELSE payload
    /\ payloadDrops' = IF refs - n = 0 /\ FinalizePayload(payload) = "dropped"
                       THEN payloadDrops + 1 ELSE payloadDrops

Panic(what) == fatal' = what

\* Drop for EventStream (stream.rs:61-67): Source::remove takes the main
\* context's reference when the source is still attached, the `source` field
\* gives up its own; n is the count at that moment
\* (variant: a drop that lets go of every reference)
DropGivesUp_All(att, n) == n
DropGivesUp(att, n) == IF att THEN 2 ELSE 1

\* emit's loop (stream.rs:44-49), entered with emit's frame on top of stk:
\* either the next observer is called, or the loop is over, the message is
\* pushed and emit returns
EmitLoop(stk, lg, ev) ==
    LET f == stk[Len(stk)]
    IN IF f.i <= LoopBound(f.len, Len(observers))
       THEN [stack |-> Append(stk, Frame("obs", f.m, 0, f.via, EmitHoldsStream)),
             log |-> Append(lg, Entry("obs", f.m, ObserverAt(observers, f.i), "-")),
             events |-> ev]
       ELSE [stack |-> Pop(stk),
             log |-> Append(lg, Entry("push", f.m, 0, "-")),
             events |-> QueuePush(ev, f.m)]

\* ---------------------------------------------------------------- Init
\* the state after EventStream::new() (stream.rs:81-98)
Init ==
    /\ events = <<>>
    /\ locked = FALSE
    /\ observers = <<>>
    /\ callback = 0
    /\ owned = TRUE
    /\ attached = TRUE
    /\ refs = 2
    /\ payload = "live"
    /\ payloadDrops = 0
    /\ stack = <<>>
    /\ loopPc = "idle"
    /\ guards = 0
    /\ nextMsg = 1
    /\ lastSet = 0
    /\ log = <<>>
    /\ fatal = "none"
    \* and after Channel::new() (channel.rs:46-62)
    /\ transport = <<>>
    /\ peeked_value = <<>>
    /\ received = <<>>
    /\ chOwned = TRUE
    /\ chRefs = 2
    /\ chPayload = "live"
    /\ chPc = "prepare"
    /\ woken = FALSE
    /\ chFatal = "none"
    /\ thr = [t \in Threads |-> [pc |-> "idle", n |-> 0, res |-> "none"]]

\* ------------------------------------------------------------- actions
\* EventStream::emit / StreamHandle::emit, up to its first observer call or,
\* with no observer to call, to its end
Emit(via) ==
    /\ UNCHANGED chanVars
    /\ InUser /\ CanUse(via)
    /\ nextMsg <= MaxEmit /\ EmitDepth < MaxDepth
    /\ nextMsg' = nextMsg + 1
    /\ IF ~Resolves(via) THEN
            /\ Panic(HandlePanic("emit"))
            /\ UNCHANGED <<streamVars, sourceVars, stack, loopPc, guards, lastSet, log>>
       ELSE IF StreamBorrowed THEN
            /\ Panic("borrow_stream")
            /\ UNCHANGED <<streamVars, sourceVars, stack, loopPc, guards, lastSet, log>>
       ELSE
            \* the log tells what the caller did: an emit on a locked ("drop")
            \* or on an unlocked ("emit") stream
            /\ LET said == IF locked THEN Entry("drop", nextMsg, 0, "-")
                                      ELSE Entry("emit", nextMsg, Len(observers), Ctx)
                   r == IF EmitAccepts(locked)
                        THEN EmitLoop(Append(stack, Frame("emit", nextMsg, Len(observers), via, FALSE)),
                                      Append(log, said), events)
                        ELSE [stack |-> stack, log |-> Append(log, said), events |-> events]
               IN stack' = r.stack /\ log' = r.log /\ events' = r.events
            /\ UNCHANGED <<locked, observers, callback, sourceVars, loopPc, guards, lastSet, fatal>>

\* the observer returns into emit's loop, which goes on
ObserverReturn ==
    /\ UNCHANGED chanVars
    /\ fatal = "none" /\ stack # <<>> /\ Top.k = "obs"
    /\ LET below == Len(stack) - 1
           r == EmitLoop([Pop(stack) EXCEPT ![below].i = @ + 1], log, events)
       IN stack' = r.stack /\ log' = r.log /\ events' = r.events
    /\ UNCHANGED <<locked, observers, callback, sourceVars, loopPc, guards, nextMsg, lastSet, fatal>>

\* EventStream::lock / StreamHandle::lock
Lock(via) ==
    /\ UNCHANGED chanVars
    /\ InUser /\ CanUse(via) /\ guards < MaxGuards
    /\ IF ~Resolves(via) THEN
            /\ Panic(HandlePanic("lock"))
            /\ UNCHANGED <<streamVars, sourceVars, stack, loopPc, guards, nextMsg, lastSet, log>>
       ELSE IF StreamBorrowed THEN
            /\ Panic("borrow_stream")
            /\ UNCHANGED <<streamVars, sourceVars, stack, loopPc, guards, nextMsg, lastSet, log>>
       ELSE
            /\ locked' = LockedAfterLock(guards)
            /\ guards' = guards + 1
            /\ UNCHANGED <<events, observers, callback, sourceVars, stack, loopPc, nextMsg, lastSet, log, fatal>>

\* Drop for Lock -> StreamHandle::unlock
Unlock ==
    /\ UNCHANGED chanVars
    /\ InUser /\ guards > 0
    /\ guards' = guards - 1
    /\ IF ~StreamAlive THEN
            /\ Panic(HandlePanic("unlock"))
            /\ UNCHANGED <<streamVars, sourceVars, stack, loopPc, nextMsg, lastSet, log>>
       ELSE IF StreamBorrowed THEN
            /\ Panic("borrow_stream")
            /\ UNCHANGED <<streamVars, sourceVars, stack, loopPc, nextMsg, lastSet, log>>
       ELSE
            /\ locked' = LockedAfterUnlock(guards)
            /\ UNCHANGED <<events, observers, callback, sourceVars, stack, loopPc, nextMsg, lastSet, log, fatal>>

\* EventStream::observe / StreamHandle::observe
Observe(via) ==
    /\ UNCHANGED chanVars
    /\ InUser /\ CanUse(via) /\ Len(observers) < MaxObs
    /\ IF ~Resolves(via) THEN
            /\ Panic(HandlePanic("observe"))
            /\ UNCHANGED <<streamVars, sourceVars, stack, loopPc, guards, nextMsg, lastSet, log>>
       ELSE IF StreamBorrowed THEN
            /\ Panic("borrow_stream")
            /\ UNCHANGED <<streamVars, sourceVars, stack, loopPc, guards, nextMsg, lastSet, log>>
       ELSE
            /\ observers' = Append(observers, Len(observers) + 1)
            /\ UNCHANGED <<events, locked, callback, sourceVars, stack, loopPc, guards, nextMsg, lastSet, log, fatal>>

\* EventStream::set_callback
SetCallback(c) ==
    /\ UNCHANGED chanVars
    /\ InUser /\ owned /\ c = lastSet + 1
    /\ IF CallbackBorrowed THEN
            /\ Panic("borrow_callback")
            /\ UNCHANGED <<streamVars, sourceVars, stack, loopPc, guards, nextMsg, lastSet, log>>
       ELSE
            /\ callback' = SetSlot(callback, c)
            /\ lastSet' = c
            /\ UNCHANGED <<events, locked, observers, sourceVars, stack, loopPc, guards, nextMsg, log, fatal>>

\* EventStream::close
Close ==
    /\ UNCHANGED chanVars
    /\ InUser /\ owned /\ attached
    /\ attached' = FALSE
    /\ Release(1)
    /\ UNCHANGED <<streamVars, owned, threadVars>>

\* Drop for EventStream, then the drop of its `source` field.  An
\* EventStream::emit in progress borrows the EventStream, which therefore
\* cannot be dropped before that emit returns.
DropStream ==
    /\ UNCHANGED chanVars
    /\ InUser /\ owned
    /\ ~\E j \in 1..Len(stack) : stack[j].k = "emit" /\ stack[j].via = "owner"
    /\ owned' = FALSE
    /\ attached' = FALSE
    /\ Release(DropGivesUp(attached, refs))
    /\ UNCHANGED <<streamVars, threadVars>>

\* the loop asks the source whether it is ready (SourceData::prepare); a
\* ready source is kept referenced by the loop until its dispatch is over
Prepare ==
    /\ UNCHANGED chanVars
    /\ fatal = "none" /\ stack = <<>> /\ loopPc = "idle" /\ attached
    /\ IF PrepareResult(events).ready \/ Check THEN
            /\ loopPc' = "pending"
            /\ refs' = refs + 1
       ELSE UNCHANGED <<loopPc, refs>>
    /\ UNCHANGED <<streamVars, owned, attached, payload, payloadDrops, stack, guards, nextMsg, lastSet, log, fatal>>

\* dispatch has returned: the loop lets go of the source, and destroys it
\* when dispatch returned false
AfterDispatch ==
    /\ loopPc' = "idle"
    /\ attached' = (attached /\ DispatchReturn)
    /\ Release(IF attached /\ ~DispatchReturn THEN 2 ELSE 1)

\* the loop dispatches the ready source (SourceData::dispatch); a source
\* destroyed in the meantime is skipped
Dispatch ==
    /\ UNCHANGED chanVars
    /\ fatal = "none" /\ stack = <<>> /\ loopPc = "pending"
    /\ IF ~attached THEN
            /\ loopPc' = "idle"
            /\ Release(1)
            /\ UNCHANGED <<streamVars, owned, attached, stack, guards, nextMsg, lastSet, log, fatal>>
       ELSE IF events = <<>> THEN
            /\ AfterDispatch
            /\ UNCHANGED <<streamVars, owned, stack, guards, nextMsg, lastSet, log, fatal>>
       ELSE IF callback = 0 THEN
            /\ events' = QueuePop(events)
            /\ log' = Append(log, Entry("lost", QueueFront(events), 0, "-"))
            /\ AfterDispatch
            /\ UNCHANGED <<locked, observers, callback, owned, stack, guards, nextMsg, lastSet, fatal>>
       ELSE
            /\ events' = QueuePop(events)
            /\ log' = Append(log, Entry("cb", QueueFront(events), callback, "-"))
            /\ stack' = <<Frame("cb", QueueFront(events), 0, "owner", DispatchHoldsStream)>>
            /\ UNCHANGED <<locked, observers, callback, sourceVars, loopPc, guards, nextMsg, lastSet, fatal>>

\* the primary callback returns; dispatch returns true and the loop lets go
\* of the source
CallbackReturn ==
    /\ UNCHANGED chanVars
    /\ fatal = "none" /\ Len(stack) = 1 /\ Top.k = "cb"
    /\ stack' = <<>>
    /\ AfterDispatch
    /\ UNCHANGED <<streamVars, owned, guards, nextMsg, lastSet, log, fatal>>

\* an iteration that does not dispatch (g_main_context_pending): the loop
\* lets go of the ready source
SkipDispatch ==
    /\ UNCHANGED chanVars
    /\ fatal = "none" /\ stack = <<>> /\ loopPc = "pending"
    /\ loopPc' = "idle"
    /\ Release(1)
    /\ UNCHANGED <<streamVars, owned, attached, stack, guards, nextMsg, lastSet, log, fatal>>

Next ==
    \/ \E via \in {"owner", "handle"} : Emit(via)
    \/ ObserverReturn
    \/ \E via \in {"owner", "handle"} : Lock(via)
    \/ Unlock
    \/ \E via \in {"owner", "handle"} : Observe(via)
    \/ \E c \in 1..MaxCb : SetCallback(c)
    \/ Close
    \/ DropStream
    \/ Prepare
    \/ Dispatch
    \/ CallbackReturn
    \/ SkipDispatch

Spec == Init /\ [][Next]_vars

\* glib dispatches a source that is marked ready whatever its prepare said
\* (g_source_set_ready_time, a ready child source)
MarkReady ==
    /\ UNCHANGED chanVars
    /\ fatal = "none" /\ stack = <<>> /\ loopPc = "idle" /\ attached
    /\ loopPc' = "pending"
    /\ refs' = refs + 1
    /\ UNCHANGED <<streamVars, owned, attached, payload, payloadDrops, stack, guards, nextMsg, lastSet, log, fatal>>

\* a program whose owner emits, observes, replaces the callback and tears the
\* stream down, at top level and from inside observers and callback; no lock
\* is taken and no StreamHandle is used
NextStreamLoop ==
    \/ Emit("owner")
    \/ ObserverReturn
    \/ Observe("owner")
    \/ \E c \in 1..MaxSet : SetCallback(c)
    \/ Close
    \/ DropStream
    \/ Prepare
    \/ Dispatch
    \/ CallbackReturn
    \/ SkipDispatch

SpecStreamLoop == Init /\ [][NextStreamLoop]_vars

\* the same program with the stream's SourceFuncs called also outside the
\* prepare-then-dispatch order
NextStreamFuncs ==
    \/ NextStreamLoop
    \/ MarkReady

SpecStreamFuncs == Init /\ [][NextStreamFuncs]_vars

\* the same program under a loop that keeps running: it goes on to its next
\* step, dispatches a ready source in some of its iterations again and again,
\* and user code called by the stream returns
SpecStreamFair ==
    /\ Init /\ [][NextStreamLoop]_vars
    /\ WF_vars(Prepare) /\ SF_vars(Dispatch)
    /\ WF_vars(CallbackReturn) /\ WF_vars(ObserverReturn)

\* ------------------------------------------------------------ Channel
allStreamVars == <<streamVars, sourceVars, threadVars>>
Msg(t, n) == <<t, n>>
ReceiverAlive == chPayload = "live"

\* mpsc::Sender::send (channel.rs:31): the message enters the transport
\* unless the Receiver is gone
TransportSend(q, m) == IF ReceiverAlive THEN Append(q, m) ELSE q
SendResult == IF ReceiverAlive THEN "ok" ELSE "err"

\* Receiver::try_recv().ok() (channel.rs:72, 84): <<>> or <<oldest message>>
TryRecv(q) == IF q = <<>> THEN <<>> ELSE <<Head(q)>>
AfterTryRecv(q) == IF q = <<>> THEN q ELSE Tail(q)

\* prepare (channel.rs:80-87): the pair <<peeked_value, transport>> it leaves
\* (variants: the early return of lines 81-83 left out; the slot refilled
\* whenever the transport has a message)
PrepareTake_Overwrite(p, q) == <<TryRecv(q), AfterTryRecv(q)>>
PrepareTake_Eager(p, q) == IF q = <<>> THEN <<p, q>> ELSE <<TryRecv(q), AfterTryRecv(q)>>
PrepareTake(p, q) == IF p # <<>> THEN <<p, q>> ELSE <<TryRecv(q), AfterTryRecv(q)>>

\* prepare, lines 82 and 86: the bool it returns, given the slot it leaves
PrepareReady(p) == p # <<>>

\* dispatch (channel.rs:68-72): what `msg` is and what is left behind.  The
\* borrow_mut() of line 69 lives to the end of the `let`, so the borrow()
\* inside or_else, reached when peeked_value is None, finds the RefCell
\* mutably borrowed and panics before try_recv is called.
\* (variant: the transport is asked first)
DispatchTake_TransportFirst(p, q) ==
    IF q # <<>> THEN [msg |-> <<Head(q)>>, peeked |-> p, transport |-> Tail(q), fatal |-> "none"]
    ELSE [msg |-> p, peeked |-> <<>>, transport |-> q, fatal |-> "none"]
DispatchTake(p, q) ==
    IF p # <<>> THEN [msg |-> p, peeked |-> <<>>, transport |-> q, fatal |-> "none"]
    ELSE [msg |-> <<>>, peeked |-> p, transport |-> q, fatal |-> "borrow_channel"]

\* Sender::send, lines 31-33: the transport's send, then the wakeup
\* (variant: the wakeup first)
SendOrder_WakeupFirst == <<"wakeup", "send">>
SendOrder == <<"send", "wakeup">>
\* a thread's pc is "idle" between two calls of send and names the second
\* step while between the two steps of a call
PcBefore(step) == IF SendOrder[1] = step THEN "idle" ELSE step
PcAfter(step) == IF SendOrder[1] = step THEN SendOrder[2] ELSE "idle"

\* Sender::send, line 31: self.sender.send(msg)
Send(t) ==
    /\ thr[t].pc = PcBefore("send") /\ thr[t].n < MaxSend
    /\ transport' = TransportSend(transport, Msg(t, thr[t].n + 1))
    /\ thr' = [thr EXCEPT ![t] = [pc |-> PcAfter("send"), n |-> @.n + 1, res |-> SendResult]]
    /\ UNCHANGED <<allStreamVars, peeked_value, received, chOwned, chRefs, chPayload, chPc, woken, chFatal>>

\* Sender::send, lines 32-34: context.wakeup(), then the result is returned
Wakeup(t) ==
    /\ thr[t].pc = PcBefore("wakeup") /\ (thr[t].pc = "idle" => thr[t].n < MaxSend)
    /\ woken' = TRUE
    /\ thr' = [thr EXCEPT ![t].pc = PcAfter("wakeup")]
    /\ UNCHANGED <<allStreamVars, transport, peeked_value, received, chOwned, chRefs, chPayload, chPc, chFatal>>

\* the Channel value is dropped: its `_source` field gives up one reference;
\* nothing detaches the source, which the main context still references
ChannelDrop ==
    /\ chOwned /\ chFatal = "none"
    /\ chOwned' = FALSE
    /\ chRefs' = chRefs - 1
    /\ chPayload' = IF chRefs - 1 = 0 THEN FinalizePayload(chPayload) ELSE chPayload
    /\ UNCHANGED <<allStreamVars, transport, peeked_value, received, chPc, woken, chFatal, thr>>

\* the loop calls prepare (channel.rs:80-87)
ChPrepare ==
    /\ chFatal = "none" /\ chPc = "prepare" /\ ReceiverAlive
    /\ peeked_value' = PrepareTake(peeked_value, transport)[1]
    /\ transport' = PrepareTake(peeked_value, transport)[2]
    /\ chPc' = IF PrepareReady(peeked_value') THEN "poll_ready" ELSE "poll_wait"
    /\ UNCHANGED <<allStreamVars, received, chOwned, chRefs, chPayload, woken, chFatal, thr>>

\* the loop polls: at once when a source is ready, else until it is woken;
\* the poll acknowledges the wakeup.  After the poll a source that was not
\* ready is asked again through check; with nothing to dispatch the
\* iteration is over and the next one begins with prepare.
ChPoll ==
    /\ chFatal = "none"
    /\ \/ chPc = "poll_ready" /\ chPc' = "dispatch"
       \/ chPc = "poll_wait" /\ woken /\ chPc' = (IF Check THEN "dispatch" ELSE "prepare")
    /\ woken' = FALSE
    /\ UNCHANGED <<allStreamVars, transport, peeked_value, received, chOwned, chRefs, chPayload, chFatal, thr>>

\* the loop calls dispatch (channel.rs:66-78): the callback is called with
\* `msg` when it is Some; dispatch returns true and the iteration is over
ChDispatch ==
    /\ chFatal = "none" /\ chPc = "dispatch"
    /\ LET r == DispatchTake(peeked_value, transport)
       IN /\ received' = received \o r.msg
          /\ peeked_value' = r.peeked
          /\ transport' = r.transport
          /\ chFatal' = r.fatal
          /\ chPc' = IF r.fatal = "none" THEN "prepare" ELSE chPc
    /\ UNCHANGED <<allStreamVars, chOwned, chRefs, chPayload, woken, thr>>

\* an iteration that does not dispatch the ready source (g_main_context_pending)
ChSkipDispatch ==
    /\ chFatal = "none" /\ chPc = "dispatch"
    /\ chPc' = "prepare"
    /\ UNCHANGED <<allStreamVars, transport, peeked_value, received, chOwned, chRefs, chPayload, woken, chFatal, thr>>

NextChannel ==
    \/ \E t \in Threads : Send(t)
    \/ \E t \in Threads : Wakeup(t)
    \/ ChannelDrop
    \/ ChPrepare
    \/ ChPoll
    \/ ChDispatch
    \/ ChSkipDispatch

SpecChannel == Init /\ [][NextChannel]_vars

\* glib dispatches a source that is marked ready whatever its prepare said
\* (g_source_set_ready_time, a ready child source): the iteration whose
\* prepare found nothing goes on to dispatch
ChMarkReady ==
    /\ chFatal = "none" /\ chPc = "poll_wait"
    /\ chPc' = "dispatch"
    /\ woken' = FALSE
    /\ UNCHANGED <<allStreamVars, transport, peeked_value, received, chOwned, chRefs, chPayload, chFatal, thr>>

NextChannelFuncs ==
    \/ \E t \in Threads : Send(t)
    \/ \E t \in Threads : Wakeup(t)
    \/ ChannelDrop
    \/ ChPrepare
    \/ ChPoll
    \/ ChMarkReady
    \/ ChDispatch
    \/ ChSkipDispatch

\* the Channel's SourceFuncs called also outside the prepare-then-dispatch order
SpecChannelFuncs == Init /\ [][NextChannelFuncs]_vars

\* one main context serving both sources: the stream's owner emits, sets
\* the callback and tears the stream down, one thread sends through the
\* Channel, and the loop asks, polls and dispatches each source in turn
NextLoop ==
    \/ Emit("owner")
    \/ \E c \in 1..MaxCb : SetCallback(c)
    \/ DropStream
    \/ Prepare
    \/ Dispatch
    \/ CallbackReturn
    \/ SkipDispatch
    \/ Send("t1")
    \/ Wakeup("t1")
    \/ ChPrepare
    \/ ChPoll
    \/ ChDispatch
    \/ ChSkipDispatch

SpecLoop == Init /\ [][NextLoop]_vars

\* a loop that keeps running: it goes on to its next step, dispatches a ready
\* source in some of its iterations again and again, and a thread inside
\* send goes on to send's next line
SpecChannelFair ==
    /\ Init /\ [][NextChannel]_vars
    /\ WF_vars(ChPrepare) /\ WF_vars(ChPoll) /\ SF_vars(ChDispatch)
    /\ \A t \in Threads : WF_vars(IF SendOrder[2] = "wakeup" THEN Wakeup(t) ELSE Send(t))

\* ------------------------------------------------- reading the history
Range(s) == {s[j] : j \in 1..Len(s)}
IsPrefix(a, b) == Len(a) <= Len(b) /\ SubSeq(b, 1, Len(a)) = a
OfKind(K) == SelectSeq(log, LAMBDA e : e.k \in K)
MsgsOf(s) == [j \in 1..Len(s) |-> s[j].m]
NoDuplicates(s) == \A p, q \in 1..Len(s) : p # q => s[p] # s[q]
Emitted == MsgsOf(OfKind({"emit"}))           \* emitted while unlocked, in call order
Pushed == MsgsOf(OfKind({"push"}))            \* in the order they were queued
Dequeued == MsgsOf(OfKind({"cb", "lost"}))    \* in the order dispatch removed them
Delivered == MsgsOf(OfKind({"cb"}))           \* in the order the primary callback got them
Dropped == Range(MsgsOf(OfKind({"drop"})))    \* emitted while locked
InFlight == {stack[j].m : j \in {i \in 1..Len(stack) : stack[i].k = "emit"}}
EmitEntry(m) == CHOOSE e \in Range(log) : e.k = "emit" /\ e.m = m
ObserversOf(m) == LET s == SelectSeq(log, LAMBDA e : e.k = "obs" /\ e.m = m)
                  IN [j \in 1..Len(s) |-> s[j].a]
Pos(k, m) == CHOOSE j \in 1..Len(log) : log[j].k = k /\ log[j].m = m
Has(k, m) == \E j \in 1..Len(log) : log[j].k = k /\ log[j].m = m
UpTo(n) == [j \in 1..n |-> j]

\* ------------------------------------------------------------- claims

\* C1 as stated: the primary callback receives every message emitted while
\* unlocked, in emission order; none is skipped, duplicated or reordered.
C1_EveryEmitDeliveredInOrder ==
    /\ IsPrefix(Delivered, Emitted)
    /\ \A m \in Range(Emitted) : m \in Range(Delivered) \cup Range(events) \cup InFlight

\* C1 (amended): dispatch removes the messages in the order in which their
\* emit calls queued them, each once; that order is the emission order except
\* for a message emitted by an observer during another emit; a removed message
\* goes to the primary callback registered at that moment and to no one when
\* none is registered.
C1_Fifo ==
    /\ Dequeued \o events = Pushed
    /\ NoDuplicates(Dequeued)
    /\ LET pushed == Pushed
       IN \A q \in 2..Len(pushed) : \A p \in 1..(q - 1) :
             pushed[p] > pushed[q] => EmitEntry(pushed[p]).ctx = "obs"
    /\ \A j \in DOMAIN log : log[j].k = "cb" => log[j].a # 0

C1_Witness ==
    /\ Delivered = <<1, 2>>
    /\ events = <<>>

\* C2: an emit on a locked stream changes nothing: its message reaches no
\* observer, is not queued and is never delivered, also after the unlock.
C2_LockedEmitIsNoOp ==
    LET dropped == Dropped
    IN dropped # {} =>
          /\ \A j \in DOMAIN log : log[j].k # "drop" => log[j].m \notin dropped
          /\ \A j \in DOMAIN events : events[j] \notin dropped
          /\ \A j \in DOMAIN stack : stack[j].m \notin dropped

\* lock, emit 1, unlock, emit 2: only 2 is observed and delivered
C2_Witness ==
    /\ Dropped = {1}
    /\ ~locked
    /\ MsgsOf(OfKind({"obs"})) = <<2>>
    /\ Delivered = <<2>>

\* C3: the observers registered before an unlocked emit are all called with
\* its message, in registration order, before the message is queued; no
\* observer is called with a message after its emit has returned.
C3_ObserversBeforePush ==
    \A j \in DOMAIN log :
        /\ log[j].k = "push" =>
               \A p \in (j + 1)..Len(log) : ~(log[p].k = "obs" /\ log[p].m = log[j].m)
        /\ log[j].k = "emit" =>
               LET m == log[j].m
                   called == ObserversOf(m)
               IN /\ called = UpTo(Len(called))
                  /\ IF Has("push", m) THEN Len(called) >= log[j].a ELSE m \in InFlight

\* message 1 went to the one observer there was, message 2 to both; the
\* second observer never saw message 1, which was delivered
C3_Witness ==
    /\ Has("cb", 1) /\ Has("push", 2)
    /\ ObserversOf(1) = <<1>>
    /\ ObserversOf(2) = <<1, 2>>

\* C4: for each message the observers are called before the primary
\* callback; with one observer, one callback and a dispatch between the
\* emissions the calls are obs:1, cb:1, obs:2, cb:2, ...
C4_Scenario ==
    \A j \in DOMAIN log :
        /\ log[j].k \notin {"drop", "lost"}
        /\ log[j].k = "emit" =>
               /\ log[j].a = 1 /\ log[j].ctx = "top"
               /\ log[j].m > 1 => \E p \in 1..(j - 1) : log[p].k = "cb" /\ log[p].m = log[j].m - 1

C4_ObserverBeforeCallback ==
    /\ \A q \in DOMAIN log :
          log[q].k = "cb" =>
              /\ \A p \in (q + 1)..Len(log) : ~(log[p].k = "obs" /\ log[p].m = log[q].m)
              /\ IsPrefix(UpTo(EmitEntry(log[q].m).a), ObserversOf(log[q].m))
    /\ C4_Scenario =>
          LET calls == OfKind({"obs", "cb"})
          IN \A j \in 1..Len(calls) :
                /\ calls[j].k = (IF j % 2 = 1 THEN "obs" ELSE "cb")
                /\ calls[j].m = (j + 1) \div 2

C4_Witness ==
    /\ C4_Scenario
    /\ Len(OfKind({"obs", "cb"})) = 4
    /\ [j \in 1..4 |-> <<OfKind({"obs", "cb"})[j].k, OfKind({"obs", "cb"})[j].m>>]
          = <<(<<"obs", 1>>), (<<"cb", 1>>), (<<"obs", 2>>), (<<"cb", 2>>)>>

\* a call made through a StreamHandle: emit, lock, observe, or the release of
\* a Lock guard
HandleCall == Emit("handle") \/ Lock("handle") \/ Observe("handle") \/ Unlock
HandleEmitRunning == \E j \in 1..Len(stack) : stack[j].k = "emit" /\ stack[j].via = "handle"

\* C5 as stated: once the EventStream has been torn down, every operation on
\* a StreamHandle ends in the fatal use-after-teardown condition.
C5_FatalOnceTornDown ==
    [][(~owned /\ HandleCall) => fatal' # "none"]_vars

\* C5 (amended): once the EventStream has been torn down, every operation on a
\* StreamHandle is fatal and leaves the stream untouched, unless the dispatch
\* cycle during which it was torn down, or a StreamHandle::emit that was
\* running when it was torn down, is still in progress.
C5_FatalOnceReleased ==
    [][(~owned /\ loopPc = "idle" /\ ~HandleEmitRunning /\ HandleCall) =>
            /\ fatal' \in {"dropped_emit", "dropped_lock", "dropped_unlock", "dropped_observe"}
            /\ UNCHANGED <<streamVars, sourceVars, stack, log>>]_vars

\* a Lock guard outlived its stream and was released
C5_Witness ==
    /\ ~owned
    /\ fatal = "dropped_unlock"

\* C8: the lock is one boolean: taking a guard sets it, releasing any guard
\* clears it whatever the number of guards still held, and an emit on the
\* cleared flag is taken.
C8_LockIsOneFlag ==
    [][/\ guards' > guards => locked'
       /\ guards' < guards /\ fatal' = "none" => ~locked'
       /\ (\E via \in {"owner", "handle"} : Emit(via)) /\ ~locked /\ fatal' = "none" =>
              nextMsg \in {stack'[j].m : j \in 1..Len(stack')} \cup Range(events')]_vars

\* a guard is still held, the flag is clear, and of two emits the one made
\* under the lock was dropped and the other one queued
C8_Witness ==
    /\ guards = 1 /\ ~locked
    /\ Dropped = {1}
    /\ events = <<2>>

\* C9: while the primary callback runs, the stream's RefCell is not borrowed:
\* emit, observe and lock from inside the callback do not fail on it, and a
\* message emitted there is queued and left to a later dispatch.
C9_NoBorrowAcrossCallback ==
    /\ fatal # "borrow_stream"
    /\ CallbackBorrowed => ~StreamBorrowed
    /\ \A j \in DOMAIN log :
          log[j].k = "emit" /\ log[j].ctx = "cb" /\ Has("push", log[j].m) =>
              /\ log[j].m \in Range(events) \/ log[j].m \in Range(Dequeued)
              /\ Has("cb", log[j].m) => Pos("cb", log[j].m) > Pos("push", log[j].m)

\* the callback got a message that was emitted from inside the callback
C9_Witness ==
    \E e \in Range(log) : e.k = "emit" /\ e.ctx = "cb" /\ Has("cb", e.m)

\* C10: the payload is destructed once, by finalize, that is when the last
\* reference to the source goes, never while the source is referenced.
C10_PayloadDroppedOnceInFinalize ==
    /\ payloadDrops <= 1
    /\ payload = "dropped" <=> refs = 0
    /\ payloadDrops = 1 <=> refs = 0
    /\ owned => refs > 0

\* the stream was torn down inside its own dispatch: the payload outlived
\* the EventStream and was destructed when the dispatch returned
C10_Witness ==
    /\ ~owned /\ refs = 0 /\ payloadDrops = 1
    /\ Len(log) > 0 /\ log[Len(log)].k = "cb"

\* ------------------------------------------------------ Channel claims
SentOk == {Msg(t, n) : t \in Threads, n \in 1..MaxSend} \cap
          {m \in {Msg(t, n) : t \in Threads, n \in 1..MaxSend} :
               m[2] <= thr[m[1]].n /\ (m[2] < thr[m[1]].n \/ thr[m[1]].res = "ok")}

\* C6: of the messages sent from several threads none is lost and none is
\* passed to the callback twice: each is in the transport, in the lookahead
\* slot or has gone to the callback, exactly once; when everything has been
\* sent and drained the callback has been called once per message.
C6_NoLossNoDuplication ==
    /\ NoDuplicates(received \o peeked_value \o transport)
    /\ Range(received \o peeked_value \o transport) = SentOk
    /\ (transport = <<>> /\ peeked_value = <<>>) => Len(received) = Cardinality(SentOk)

\* both threads have sent all their messages and the callback got them all
C6_Witness ==
    /\ \A t \in Threads : thr[t].n = MaxSend /\ thr[t].pc = "idle"
    /\ Len(received) = MaxSend * Cardinality(Threads)
    /\ received[1][1] # received[2][1]

\* C7: once the Channel has been dropped, send returns a failure and its
\* message does not enter the transport, so it is never passed to the callback.
C7_SendFailsAfterChannelDropped ==
    [][\A t \in Threads :
          (~chOwned /\ Send(t)) => thr'[t].res = "err" /\ transport' = transport]_vars

\* C12: a dispatch removes the front message and no other, whether or not a
\* primary callback is registered; without one the message goes to nobody,
\* neither then nor after a callback has been set; on an empty queue dispatch
\* changes nothing and raises no error; dispatch leaves the source armed.
C12_DispatchPopsFront ==
    /\ [][/\ (Dispatch /\ attached) =>
               /\ fatal' = "none"
               /\ IF events = <<>>
                  THEN UNCHANGED <<streamVars, stack, log>>
                  ELSE /\ events' = Tail(events)
                       /\ log' = Append(log, Entry(IF callback = 0 THEN "lost" ELSE "cb",
                                                   Head(events), callback, "-"))
                       /\ (callback = 0) <=> (stack' = <<>>)
          /\ (Dispatch \/ CallbackReturn) => attached' = attached]_vars
    /\ [](\A j \in DOMAIN log :
             log[j].k = "lost" => ~Has("cb", log[j].m) /\ log[j].m \notin Range(events))

\* message 1 was dispatched before a callback was set, message 2 after, and
\* a dispatch is now due on the empty queue
C12_Witness ==
    /\ Has("lost", 1) /\ Has("cb", 2) /\ callback # 0
    /\ loopPc = "pending" /\ attached /\ events = <<>>

\* C14: the stream's prepare reports ready exactly when the queue is not
\* empty and asks for no timeout, so a dispatch is due exactly when a message
\* is pending; under a loop that keeps running, a queued message is
\* eventually removed by a dispatch, as long as the stream stays attached.
C14_ReadyWhilePending ==
    /\ [][Prepare => /\ (loopPc' = "pending") <=> (events # <<>>)
                     /\ PrepareResult(events).timeout = "none"]_vars
    /\ \A m \in 1..MaxEmit :
          (m \in Range(events) /\ attached) ~>
              (m \in Range(Dequeued) \/ ~attached \/ fatal # "none")

\* both messages were queued and dispatched, the stream is still attached
\* and the loop finds it not ready
C14_Witness ==
    /\ Dequeued = <<1, 2>>
    /\ events = <<>> /\ attached /\ loopPc = "idle" /\ stack = <<>>

\* C16: set_callback replaces the primary callback: the slot holds the
\* closure stored last and no other; a dispatched message is passed to that
\* closure alone, whenever it was emitted, and a closure that has been
\* replaced is never called again.
C16_CallbackIsReplaced ==
    /\ [](callback = lastSet)
    /\ [][(Dispatch /\ attached /\ events # <<>> /\ lastSet # 0) =>
              /\ log' = Append(log, Entry("cb", Head(events), lastSet, "-"))
              /\ Len(stack') = 1 /\ stack'[1].k = "cb" /\ stack'[1].m = Head(events)]_vars
    /\ [](\A p, q \in DOMAIN log :
             (p < q /\ log[p].k = "cb" /\ log[q].k = "cb") => log[p].a <= log[q].a)

\* both messages were queued before the second closure was stored: the
\* first closure got message 1, the second one message 2
C16_Witness ==
    /\ SelectSeq(log, LAMBDA e : e.k \in {"push", "cb"}) =
          <<Entry("push", 1, 0, "-"), Entry("push", 2, 0, "-"),
            Entry("cb", 1, 1, "-"), Entry("cb", 2, 2, "-")>>
    /\ stack = <<>>

\* C17: an EventStream torn down from inside the primary callback which its
\* own dispatch is running: the payload outlives the callback, it is released
\* only when the loop is done with that dispatch, and no message is
\* dispatched afterwards.
C17_TeardownInsideDispatch ==
    /\ [](CallbackBorrowed => payload = "live" /\ payloadDrops = 0 /\ refs > 0)
    /\ [][(loopPc = "pending" /\ payload' # payload) =>
              loopPc' = "idle" /\ stack' = <<>>]_vars
    /\ [][(~attached /\ Len(log') > Len(log)) =>
              log'[Len(log')].k \notin {"cb", "lost"}]_vars

\* the callback has dropped the EventStream and is still running
C17_Witness ==
    /\ CallbackBorrowed /\ ~owned /\ ~attached
    /\ payload = "live" /\ refs = 1
    /\ events # <<>>

\* the message whose notification was running when log[j] was written from
\* inside an observer: that of the latest observer call before j whose
\* message had not been queued yet
Parent(j) ==
    LET open == {p \in 1..(j - 1) :
                    /\ log[p].k = "obs"
                    /\ ~\E q \in (p + 1)..(j - 1) : log[q].k = "push" /\ log[q].m = log[p].m}
    IN log[CHOOSE p \in open : \A p2 \in open : p2 <= p].m
FirstPos(K, m) ==
    CHOOSE j \in 1..Len(log) :
        /\ log[j].k \in K /\ log[j].m = m
        /\ \A p \in 1..(j - 1) : ~(log[p].k \in K /\ log[p].m = m)

\* C18: a message m2 emitted by an observer while it is notified of m1 is
\* notified to the observers and queued before m1 is queued, so dispatch
\* removes m2 before m1; an emit reads the locked flag and the number of
\* observers once: a message taken is notified to exactly the observers
\* registered when its emit began and is queued whatever the observers lock
\* or register meanwhile.
C18_NestedEmitGoesFirst ==
    [](\A j \in DOMAIN log :
          log[j].k = "emit" =>
              LET m == log[j].m
              IN /\ Has("push", m) \/ m \in InFlight
                 /\ Has("push", m) => ObserversOf(m) = UpTo(log[j].a)
                 /\ (log[j].ctx = "obs" /\ Has("push", Parent(j))) =>
                        /\ Has("push", m)
                        /\ Pos("push", m) < Pos("push", Parent(j))
                        /\ \A p \in DOMAIN log :
                              (log[p].k = "obs" /\ log[p].m = m) => p < Pos("push", Parent(j))
                        /\ Has("cb", Parent(j)) =>
                              /\ Has("cb", m) \/ Has("lost", m)
                              /\ FirstPos({"cb", "lost"}, m) < Pos("cb", Parent(j)))

\* the observer emitted 2 while it was notified of 1, was notified of 2 in
\* turn, and the callback got 2 and then 1
C18_Witness ==
    /\ Emitted = <<1, 2>> /\ EmitEntry(2).ctx = "obs"
    /\ ObserversOf(2) = <<1>>
    /\ Pushed = <<2, 1>>
    /\ Delivered = <<2, 1>>

\* C19: under the loop's protocol, in which a source is dispatched only after
\* its prepare or its check reported ready in that iteration, every dispatch
\* of the Channel's source finds the lookahead slot full and every dispatch
\* of the stream's source finds the queue non-empty: nothing takes the
\* message away between prepare and dispatch.
C19_ReadyMeansNonEmpty ==
    /\ chPc = "dispatch" => peeked_value # <<>>
    /\ chFatal = "none"
    /\ (loopPc = "pending" /\ ~CallbackBorrowed /\ attached) => events # <<>>

\* each source has been dispatched once and a dispatch is due on both again
C19_Witness ==
    /\ chPc = "dispatch" /\ peeked_value = <<Msg("t1", 2)>>
    /\ received = <<Msg("t1", 1)>>
    /\ loopPc = "pending" /\ ~CallbackBorrowed /\ attached /\ events = <<2>>
    /\ Has("cb", 1)

\* C11 as stated: a dispatch that finds the lookahead slot empty makes one
\* more non-blocking receive and passes that message to the callback; with
\* nothing in the transport either it does nothing and raises no error.
C11_DispatchFallsBackToTransport ==
    [][(ChDispatch /\ peeked_value = <<>>) =>
            /\ chFatal' = "none"
            /\ transport # <<>> => received' = Append(received, Head(transport))
                                   /\ transport' = Tail(transport)
            /\ transport = <<>> => UNCHANGED <<received, transport, peeked_value>>]_vars

\* C13: prepare takes a message from the transport only when the lookahead
\* slot is empty, and then one at most, so that prepare calls with no dispatch
\* between them take one message in all; it reports ready exactly when it
\* leaves the slot full; the next dispatch delivers the message in the slot.
C13_PrepareKeepsTheSlot ==
    [][/\ ChPrepare =>
            /\ peeked_value # <<>> => UNCHANGED <<peeked_value, transport>>
            /\ peeked_value = <<>> => peeked_value' \o transport' = transport
            /\ Len(peeked_value') <= 1
            /\ (chPc' = "poll_ready") <=> (peeked_value' # <<>>)
       /\ (ChDispatch /\ peeked_value # <<>>) =>
            /\ received' = received \o peeked_value
            /\ transport' = transport]_vars

\* prepare filled the slot, the dispatch was skipped, the transport holds a
\* second message and prepare is about to be called again
C13_Witness ==
    /\ chPc = "prepare"
    /\ peeked_value # <<>> /\ transport # <<>>
    /\ received = <<>>

\* the messages of thread t passed to the callback, in the order it got them
ReceivedFrom(t) == SelectSeq(received, LAMBDA m : m[1] = t)

\* C20: the callback gets the messages of one thread in the order in which
\* that thread sent them, whatever the other threads send and whenever
\* prepare and dispatch run: the k-th message it gets from a thread is the
\* k-th that thread sent, and what is still in the slot or in the transport
\* was sent later.
C20_PerSenderOrder ==
    \A t \in Threads :
        LET got == ReceivedFrom(t)
            rest == SelectSeq(peeked_value \o transport, LAMBDA m : m[1] = t)
        IN \A k \in 1..Len(got \o rest) : (got \o rest)[k] = Msg(t, k)

\* the slot held a message of t1 while a message of t2 and then t1's second
\* one waited in the transport; all of them have been delivered by now
C20_Witness ==
    /\ received = <<Msg("t1", 1), Msg("t2", 1), Msg("t1", 2)>>
    /\ peeked_value = <<Msg("t2", 2)>>

AllMsgs == {Msg(t, n) : t \in Threads, n \in 1..MaxSend}
Pending == Range(peeked_value \o transport)

\* C15: send has put its message into the transport when it signals, and it
\* signals on every call: the loop is never left in its wait step with a
\* message pending and no wakeup signalled or about to be; every message sent
\* is eventually passed to the callback.
C15_SendWakesTheLoop ==
    /\ [](chPc = "poll_wait" /\ Pending # {} =>
              woken \/ \E t \in Threads : thr[t].pc = "wakeup")
    /\ [][\A t \in Threads : Wakeup(t) =>
              /\ woken'
              /\ thr[t].res = "ok" => Msg(t, thr[t].n) \in Pending \cup Range(received)]_vars
    /\ \A m \in AllMsgs : (m \in Pending) ~> (m \in Range(received))

\* the loop was waiting when the message was sent, and has delivered it
C15_Witness ==
    /\ received = <<Msg("t1", 1)>>
    /\ chPc = "poll_wait" /\ ~woken
    /\ thr["t1"].n = 1 /\ thr["t2"].n = 0
====
